---- MODULE Spec2Model ----
(***************************************************************************)
(* A model of fireworks/user_objects/firetasks/dataflow_tasks.py:          *)
(* CommandLineTask (binding resolution, invocation building, result        *)
(* propagation), SingleTask and ForeachTask (chunked fan-out).             *)
(*                                                                         *)
(* The module is Python 2 code (xrange, unicode): `/` on two ints is floor *)
(* division.  Python values are tagged records so that values of different *)
(* Python types can be compared.                                           *)
(***************************************************************************)
EXTENDS Integers, Sequences, FiniteSets, TLC

\* ------------------------------------------------------------------ bounds
\* Longest list stored under the split key.
MaxLen == 7
\* Longest split list whose spawned units are then run and applied.
MaxBranches == 3
\* Longest inputs or outputs list of a CommandLineTask.
MaxLabels == 2
\* How many times the same CommandLineTask is run.
MaxRuns == 2

\* Largest explicit 'number of chunks': one more than the longest list, so
\* that counts above the list length occur.
MaxChunks == MaxLen + 1

\* ------------------------------------------------------------ Python values
None == [k |-> "None"]
PyInt(n) == [k |-> "int", v |-> n]
PyStr(s) == [k |-> "str", v |-> s]
PyList(s) == [k |-> "list", v |-> s]
PyTuple(s) == [k |-> "tuple", v |-> s]

\* All sequences over S of length lo..hi.
SeqsOf(S, lo, hi) == UNION {[1..n -> S] : n \in lo..hi}

\* Concatenation of a sequence of sequences, in index order.
RECURSIVE Concat(_)
Concat(ss) == IF ss = <<>> THEN <<>> ELSE Head(ss) \o Concat(Tail(ss))

Min(a, b) == IF a < b THEN a ELSE b

\* ------------------------------------------------------------------- state
VARIABLES
  \* ForeachTask: the task's parameters and the context it runs on
  task,         \* self: function, split, inputs, outputs, 'number of chunks'
  fw_spec,      \* the context handed to ForeachTask.run_task
  foreach_ret,  \* what ForeachTask.run_task returned (or raised)
  \* the spawned SingleTask units
  branch_out,   \* per unit: what the transform function returned
  branch_ret,   \* per unit: what SingleTask.run_task returned (or raised)
  applied,      \* number of units whose directive the engine has applied
  child_spec,   \* the context the engine applies the directives to
  engine_err,   \* the engine could not apply some directive
  \* CommandLineTask
  cl_task,      \* self: inputs, outputs, chunk_number
  cmd_spec,     \* self['command_spec']: the command list and the label records
  cl_fw_spec,   \* the context handed to CommandLineTask.run_task
  uuid_count,   \* how many unique names uuid4 has handed out
  popen,        \* the last run's process launch, if it got that far
  prev_popen,   \* the launch of the run before the last
  proc_out,     \* what the last process wrote to its standard output
  copies,       \* the copyfile calls of the last run
  cl_ret,       \* what the last run_task returned (or raised)
  runs          \* number of run_task calls so far

fanVars ==
  <<task, fw_spec, foreach_ret, branch_out, branch_ret, applied, child_spec, engine_err>>

cmdVars ==
  <<cl_task, cmd_spec, cl_fw_spec, uuid_count, popen, prev_popen, proc_out, copies,
    cl_ret, runs>>

vars == <<fanVars, cmdVars>>

\* ----------------------------------------------------------- FWAction, raise
Pending == [kind |-> "pending"]
Raise(e) == [kind |-> "raise", exc |-> e]
EmptyDict == [x \in {} |-> None]

\* FWAction(): every field at its default.
FWAction ==
  [kind |-> "FWAction", update_spec |-> EmptyDict, mod_spec |-> <<>>,
   detours |-> <<>>, defuse_workflow |-> FALSE]

\* Variant: the defuse flag forgotten.
FWActionDefuseDropped == FWAction

\* FWAction(defuse_workflow=True)
FWActionDefuse == [FWAction EXCEPT !.defuse_workflow = TRUE]

\* FWAction(detours=fireworks)
FWActionDetours(fireworks) == [FWAction EXCEPT !.detours = fireworks]

\* FWAction(update_spec=d)
FWActionUpdate(d) == [FWAction EXCEPT !.update_spec = d]

\* FWAction(mod_spec=m)
FWActionMod(m) == [FWAction EXCEPT !.mod_spec = m]

\* {'_push': {label: item}}
Push(label, item) == [op |-> "_push", key |-> label, val |-> item]

\* --------------------------------------------------------------- ForeachTask
\* xrange(start, stop, step) for step > 0
RECURSIVE XRange(_, _, _)
XRange(start, stop, step) ==
  IF start >= stop THEN <<>> ELSE <<start>> \o XRange(start + step, stop, step)

\* s[i:j] for 0 <= i <= j
Slice(s, i, j) == SubSeq(s, i + 1, Min(j, Len(s)))

\* Variant: the remainder test forgotten, the length always rounded up by one.
ChunkLenAlwaysBumped(lensplit, nchunks) == (lensplit \div nchunks) + 1

\* chunklen = lensplit / nchunks; if lensplit % nchunks > 0: chunklen += 1
ChunkLen(lensplit, nchunks) ==
  IF lensplit % nchunks > 0
    THEN (lensplit \div nchunks) + 1
    ELSE lensplit \div nchunks

\* Variant: each slice one element short.
ChunksShortSlice(split_field, chunklen) ==
  LET starts == XRange(0, Len(split_field), chunklen)
  IN [n \in 1..Len(starts) |-> Slice(split_field, starts[n], starts[n] + chunklen - 1)]

\* [split_field[i:i+chunklen] for i in xrange(0, lensplit, chunklen)]
Chunks(split_field, chunklen) ==
  LET starts == XRange(0, Len(split_field), chunklen)
  IN [n \in 1..Len(starts) |-> Slice(split_field, starts[n], starts[n] + chunklen)]

\* if not nchunks: nchunks = lensplit
EffectiveChunks(nchunks, lensplit) ==
  IF nchunks = None \/ nchunks = PyInt(0) THEN lensplit ELSE nchunks.v

\* Firework(SingleTask(function, inputs, outputs, chunk_number=index), spec, name)
Firework(self, spec, index) ==
  [task |-> [function |-> self.function, inputs |-> self.inputs,
             outputs |-> self.outputs, chunk_number |-> PyInt(index)],
   spec |-> spec,
   name |-> <<"ForeachTask", index>>]

\* The fireworks list built by the loop over the chunks: a copy of the
\* context per chunk, the split key replaced by the chunk.
SpawnFireworks(self, spec, split_input, chunks) ==
  [n \in 1..Len(chunks) |->
     Firework(self, [spec EXCEPT ![split_input] = PyList(chunks[n])], n - 1)]

\* ForeachTask.run_task as a function of the task and the context.
ForeachResult(self, spec) ==
  LET split_input == self.split
      node_input == self.inputs
  IN
  IF split_input.k # "str"
    THEN Raise("TypeError")
  ELSE IF split_input.v \notin DOMAIN spec
    THEN Raise("KeyError")
  ELSE IF spec[split_input.v].k # "list"
    THEN Raise("TypeError")
  ELSE IF node_input.k = "list"
          /\ \A n \in 1..Len(node_input.v) : node_input.v[n] # split_input.v
    THEN Raise("ValueError")
  ELSE IF node_input.k # "list" /\ split_input # node_input
    THEN Raise("ValueError")
  ELSE
    LET split_field == spec[split_input.v].v
        lensplit == Len(split_field)
    IN
    IF lensplit < 1
      THEN FWActionDefuse
      ELSE
        LET nchunks == EffectiveChunks(self.nchunks, lensplit)
            chunklen == ChunkLen(lensplit, nchunks)
            chunks == Chunks(split_field, chunklen)
        IN FWActionDetours(SpawnFireworks(self, spec, split_input.v, chunks))

ForeachTask_run_task ==
  /\ foreach_ret = Pending
  /\ foreach_ret' = ForeachResult(task, fw_spec)
  /\ LET n == IF foreach_ret'.kind = "FWAction" THEN Len(foreach_ret'.detours) ELSE 0
     IN /\ branch_out' = [i \in 1..n |-> Pending]
        /\ branch_ret' = [i \in 1..n |-> Pending]
  /\ UNCHANGED <<task, fw_spec, applied, child_spec, engine_err, cmdVars>>

\* ------------------------------------------------------------- initial states
Elems == {PyInt(1), PyInt(2)}
SplitKey == "xs"
OtherKey == "ys"

SplitParams == {PyStr(SplitKey), PyInt(0)}
InputParams ==
  {PyStr(SplitKey), PyStr(OtherKey), PyList(<<SplitKey, OtherKey>>), PyList(<<OtherKey>>)}
ChunkParams == {None} \cup {PyInt(c) : c \in 0..MaxChunks}
OutputParams == {None, PyStr("a"), PyList(<<"a", "b">>)}
OutLabels == {"a", "b"}
Absent == [k |-> "absent"]

FanIdle ==
  /\ foreach_ret = Pending
  /\ branch_out = <<>>
  /\ branch_ret = <<>>
  /\ applied = 0
  /\ child_spec = [l \in OutLabels |-> Absent]
  /\ engine_err = FALSE

\* ---------------------------------------------------------------- SingleTask
\* What the named transform function may return.
TransformOutputs ==
  {PyInt(1), PyInt(2), PyList(<<PyInt(1), PyInt(2)>>), PyTuple(<<PyInt(1), PyInt(2)>>)}

\* The inputs list: fw_spec[node_input], or fw_spec[item] for each item.
SingleInputs(self, spec) ==
  LET node_input == self.inputs IN
  IF node_input.k = "str"
    THEN IF node_input.v \in DOMAIN spec
           THEN PyList(<<spec[node_input.v]>>) ELSE Raise("KeyError")
  ELSE IF node_input.k = "list"
    THEN IF \A n \in 1..Len(node_input.v) : node_input.v[n] \in DOMAIN spec
           THEN PyList([n \in 1..Len(node_input.v) |-> spec[node_input.v[n]]])
           ELSE Raise("KeyError")
  ELSE IF node_input # None
    THEN Raise("TypeError")
  ELSE PyList(<<>>)

\* The dict built by `for (index, item) in enumerate(node_output):
\* output_dict[item] = outputs[index]`: a repeated label keeps its last value.
EnumerateDict(labels, values) ==
  [l \in {labels[n] : n \in 1..Len(labels)} |->
     values[CHOOSE n \in 1..Len(labels) :
              /\ labels[n] = l
              /\ \A m \in 1..Len(labels) : labels[m] = l => m <= n]]

\* The part of SingleTask.run_task after the transform has returned `outputs`.
SinglePropagate(self, outputs) ==
  LET node_output == self.outputs IN
  IF node_output = None
    THEN FWAction
  ELSE IF outputs.k = "tuple"
    THEN IF node_output.k = "list"
           THEN IF Len(node_output.v) > Len(outputs.v)
                  THEN Raise("IndexError")
                  ELSE FWActionUpdate(EnumerateDict(node_output.v, outputs.v))
           ELSE FWActionUpdate([l \in {node_output.v} |-> outputs])
  ELSE IF self.chunk_number # None
    THEN IF outputs.k = "list"
           \* a list used as a dict key is unhashable: TypeError at the first item
           THEN IF node_output.k = "list" /\ Len(outputs.v) > 0
                  THEN Raise("TypeError")
                  ELSE FWActionMod([n \in 1..Len(outputs.v) |->
                                      Push(node_output.v, outputs.v[n])])
         ELSE IF node_output.k = "list"
           THEN Raise("TypeError")
         ELSE FWActionMod(<<Push(node_output.v, outputs)>>)
  ELSE IF node_output.k = "list"
    THEN Raise("TypeError")
  ELSE FWActionUpdate([l \in {node_output.v} |-> outputs])

\* One spawned unit runs: any unit not yet run, in any order.
SingleTask_run_task ==
  /\ foreach_ret.kind = "FWAction"
  /\ \E i \in 1..Len(foreach_ret.detours) :
       /\ branch_ret[i] = Pending
       /\ LET self == foreach_ret.detours[i].task
              inputs == SingleInputs(self, foreach_ret.detours[i].spec)
          IN IF "kind" \in DOMAIN inputs
               THEN /\ branch_ret' = [branch_ret EXCEPT ![i] = inputs]
                    /\ UNCHANGED branch_out
               ELSE \E outputs \in TransformOutputs :
                      /\ branch_out' = [branch_out EXCEPT ![i] = outputs]
                      /\ branch_ret' = [branch_ret EXCEPT ![i] = SinglePropagate(self, outputs)]
  /\ UNCHANGED <<task, fw_spec, foreach_ret, applied, child_spec, engine_err, cmdVars>>

\* -------------------------------------------------- the engine (spec.md, 6)
\* "update": replace the named keys with the new values.
ApplyUpdate(spec, d) ==
  [l \in DOMAIN spec |-> IF l \in DOMAIN d THEN d[l] ELSE spec[l]]

\* "append": append the value to the list stored at the key, creating it if
\* absent.  An entry that is no list cannot be appended to.
CanPush(spec, p) == spec[p.key] = Absent \/ spec[p.key].k = "list"

ApplyPush(spec, p) ==
  IF spec[p.key] = Absent
    THEN [spec EXCEPT ![p.key] = PyList(<<p.val>>)]
  ELSE IF spec[p.key].k = "list"
    THEN [spec EXCEPT ![p.key] = PyList(Append(spec[p.key].v, p.val))]
  ELSE spec

RECURSIVE ApplyMods(_, _)
ApplyMods(spec, mods) ==
  IF mods = <<>> THEN spec ELSE ApplyMods(ApplyPush(spec, Head(mods)), Tail(mods))

RECURSIVE ModsFail(_, _)
ModsFail(spec, mods) ==
  IF mods = <<>> THEN FALSE
  ELSE ~CanPush(spec, Head(mods)) \/ ModsFail(ApplyPush(spec, Head(mods)), Tail(mods))

\* The engine applies the next unit's result directive, in submission order.
EngineApply ==
  /\ foreach_ret.kind = "FWAction"
  /\ applied < Len(foreach_ret.detours)
  /\ branch_ret[applied + 1] # Pending
  /\ applied' = applied + 1
  /\ LET ret == branch_ret[applied + 1] IN
     IF ret.kind = "FWAction"
       THEN LET updated == ApplyUpdate(child_spec, ret.update_spec)
            IN /\ child_spec' = ApplyMods(updated, ret.mod_spec)
               /\ engine_err' = (engine_err \/ ModsFail(updated, ret.mod_spec))
       ELSE UNCHANGED <<child_spec, engine_err>>
  /\ UNCHANGED <<task, fw_spec, foreach_ret, branch_out, branch_ret, cmdVars>>

\* ============================================================ CommandLineTask
Dict(r) == [k |-> "dict", v |-> r]
Bytes(s) == [k |-> "bytes", v |-> s]
NoneType == "<None>"
PIPE == [k |-> "PIPE"]
File(path, mode) == [k |-> "file", path |-> path, mode |-> mode]

\* Where a resolved part lives: inp[key] is the very dict stored in
\* cmd_spec[l][key], or the one stored in fw_spec[item].
CmdLoc(l, key) == [in |-> "cmd", label |-> l, part |-> key]
CtxLoc(item) == [in |-> "ctx", label |-> item, part |-> ""]

Deref(st, loc) ==
  IF loc.in = "cmd" THEN st.bind[loc.label][loc.part].v ELSE st.ctx[loc.label].v

\* d['value'] = val on the dict at loc
SetValue(st, loc, val) ==
  IF loc.in = "cmd"
    THEN [st EXCEPT !.bind[loc.label][loc.part] =
            Dict([key \in DOMAIN @.v \cup {"value"} |->
                    IF key = "value" THEN val ELSE @.v[key]])]
    ELSE [st EXCEPT !.ctx[loc.label] =
            Dict([key \in DOMAIN @.v \cup {"value"} |->
                    IF key = "value" THEN val ELSE @.v[key]])]

PartKeys == <<"binding", "source", "target">>

\* The first exception the inner loop over ['binding', 'source', 'target']
\* raises for label l, or "" when it raises none.
RECURSIVE PartError(_, _, _, _)
PartError(bind, ctx, l, n) ==
  IF n > Len(PartKeys) THEN ""
  ELSE LET key == PartKeys[n] IN
       IF key \notin DOMAIN bind[l] THEN PartError(bind, ctx, l, n + 1)
       ELSE LET item == bind[l][key] IN
            IF item.k = "str"
              THEN IF item.v \in DOMAIN ctx
                     THEN PartError(bind, ctx, l, n + 1) ELSE "KeyError"
            ELSE IF item.k = "dict" THEN PartError(bind, ctx, l, n + 1)
            ELSE "ValueError"

\* inp for label l: each part present, as the place of the dict it names.
ResolveLabel(bind, l) ==
  [key \in DOMAIN bind[l] |->
     IF bind[l][key].k = "str" THEN CtxLoc(bind[l][key].v) ELSE CmdLoc(l, key)]

Resolved(args) == [kind |-> "ok", v |-> args]

\* `for l in labels: ... ios.append(inp)`: the list of resolved records, or
\* the first exception.
RECURSIVE ResolveFrom(_, _, _, _)
ResolveFrom(bind, ctx, labels, n) ==
  IF n > Len(labels) THEN Resolved(<<>>)
  ELSE LET l == labels[n] IN
       IF l \notin DOMAIN bind THEN Raise("KeyError")
       ELSE IF PartError(bind, ctx, l, 1) # "" THEN Raise(PartError(bind, ctx, l, 1))
       ELSE LET rest == ResolveFrom(bind, ctx, labels, n + 1) IN
            IF rest.kind = "raise" THEN rest
            ELSE Resolved(<<ResolveLabel(bind, l)>> \o rest.v)

\* ilabels/olabels stay None when the parameter is not given (the defaults
\* are assigned to the misspelt names ilables/olables), and iterating None
\* raises TypeError.
Resolve(bind, ctx, labels) ==
  IF labels = None THEN Raise("TypeError") ELSE ResolveFrom(bind, ctx, labels.v, 1)

\* set_binding(arg)
set_binding(st, arg) ==
  IF "binding" \in DOMAIN arg
    THEN LET b == Deref(st, arg["binding"]) IN
         (IF "prefix" \in DOMAIN b THEN b["prefix"] ELSE "")
           \o (IF "separator" \in DOMAIN b THEN b["separator"] ELSE "")
    ELSE ""

Fail(st, e) == [st EXCEPT !.exc = e]

\* if len(argstr) > 0: arglist.append(argstr) -- arglist is the command list
\* of the command specification itself.
AppendArg(st, argstr) ==
  IF Len(argstr) > 0 THEN [st EXCEPT !.command = Append(@, argstr)] ELSE st

\* One pass of the loop over inputs.
InputStep(st, arg) ==
  LET argstr == set_binding(st, arg) IN
  IF "source" \notin DOMAIN arg THEN Fail(st, "AssertionError")
  ELSE
  LET source == Deref(st, arg["source"]) IN
  IF ~(source["type"] # NoneType /\ Len(source["value"]) > 0)
    THEN Fail(st, "AssertionError")
  ELSE IF "target" \in DOMAIN arg
    THEN IF Deref(st, arg["target"])["type"] # "stdin"
           THEN Fail(st, "AssertionError")
         ELSE IF source["type"] = "path"
           THEN AppendArg([st EXCEPT !.stdin = File(source["value"], "r")], argstr)
         ELSE IF source["type"] = "string"
           THEN AppendArg([st EXCEPT !.stdin = PIPE,
                                     !.stdininp = Bytes(source["value"])], argstr)
         ELSE Fail(st, "NotImplementedError")
  ELSE IF source["type"] \in {"path", "string"}
    THEN AppendArg(st, argstr \o source["value"])
  ELSE Fail(st, "NotImplementedError")

\* os.path.isdir: the directories of the file system.
Dirs == {"outdir"}
\* os.path.join(path, str(uuid.uuid4())): the n-th fresh name.
JoinUuid(path, n) == path \o "/uuid" \o ToString(n)

\* One pass of the first loop over outputs.
OutputStep(st, arg) ==
  LET argstr == set_binding(st, arg) IN
  IF "target" \notin DOMAIN arg THEN Fail(st, "AssertionError")
  ELSE
  LET target == Deref(st, arg["target"]) IN
  IF target["type"] = "path"
    THEN IF "value" \notin DOMAIN target \/ Len(target["value"]) = 0
           THEN Fail(st, "AssertionError")
         ELSE
         LET isdir == target["value"] \in Dirs
             path == IF isdir THEN JoinUuid(target["value"], st.uuid) ELSE target["value"]
             st1 == IF isdir
                      THEN [SetValue(st, arg["target"], path) EXCEPT !.uuid = @ + 1]
                      ELSE st
         IN IF "source" \notin DOMAIN arg THEN Fail(st1, "KeyError")
            ELSE LET source == Deref(st1, arg["source"]) IN
                 IF source["type"] = "stdout"
                   THEN AppendArg([st1 EXCEPT !.stdout = File(path, "w")], argstr)
                 ELSE IF source["type"] = "stderr"
                   THEN AppendArg([st1 EXCEPT !.stderr = File(path, "w")], argstr)
                 ELSE AppendArg(st1, argstr \o path)
  ELSE IF target["type"] = "string"
    THEN AppendArg([st EXCEPT !.stdout = PIPE], argstr)
  ELSE Fail(st, "NotImplementedError")

RECURSIVE InputsLoop(_, _)
InputsLoop(st, args) ==
  IF args = <<>> \/ st.exc # "" THEN st
  ELSE InputsLoop(InputStep(st, Head(args)), Tail(args))

RECURSIVE OutputsLoop(_, _)
OutputsLoop(st, args) ==
  IF args = <<>> \/ st.exc # "" THEN st
  ELSE OutputsLoop(OutputStep(st, Head(args)), Tail(args))

\* ------------------------------------------------- captured standard output
Whitespace == {" ", "\n", "\t"}

RECURSIVE LStrip(_)
LStrip(cs) == IF cs # <<>> /\ Head(cs) \in Whitespace THEN LStrip(Tail(cs)) ELSE cs

RECURSIVE RStrip(_)
RStrip(cs) ==
  IF cs # <<>> /\ cs[Len(cs)] \in Whitespace THEN RStrip(SubSeq(cs, 1, Len(cs) - 1)) ELSE cs

RECURSIVE Join(_)
Join(cs) == IF cs = <<>> THEN "" ELSE Head(cs) \o Join(Tail(cs))

\* res[0].decode().strip(), res[0] given as its sequence of characters
DecodeStrip(chars) == Join(RStrip(LStrip(chars)))

\* What the child process may write to its standard output.
StdoutTexts == {<<"h", "i", "\n">>, <<" ", "o", "k">>}

\* Popen(arglist, stdin=, stderr=, stdout=); communicate(input=stdininp).
\* The executable and the input files are taken to exist: the launch itself
\* does not fail.
Popen(st) ==
  [args |-> st.command, stdin |-> st.stdin, stdout |-> st.stdout,
   stderr |-> st.stderr, input |-> st.stdininp]
NoPopen == [k |-> "not launched"]

\* One pass of the loop that fills retlist.
CollectStep(st, output, text) ==
  IF "source" \notin DOMAIN output THEN Fail(st, "KeyError")
  ELSE
  LET source == Deref(st, output["source"])
      target == Deref(st, output["target"])
      st1 == IF source["type"] = "path"
               THEN [st EXCEPT !.copies = Append(@, <<source["value"], target["value"]>>)]
               ELSE st
  IN IF target["type"] = "string"
       THEN IF st.stdout = PIPE
              THEN [SetValue(st1, output["target"], DecodeStrip(text))
                      EXCEPT !.retlist = Append(@, output["target"])]
              \* res[0] is None unless stdout is the pipe
              ELSE Fail(st1, "AttributeError")
       ELSE [st1 EXCEPT !.retlist = Append(@, output["target"])]

RECURSIVE CollectLoop(_, _, _)
CollectLoop(st, outputs, text) ==
  IF outputs = <<>> \/ st.exc # "" THEN st
  ELSE CollectLoop(CollectStep(st, Head(outputs), text), Tail(outputs), text)

\* command_line_tool(command, inputs, outputs) on the state st; text is what
\* the process writes to standard output.
command_line_tool(st, inputs, outputs, text) ==
  LET built == OutputsLoop(InputsLoop(st, inputs), outputs) IN
  IF built.exc # "" THEN built
  ELSE CollectLoop([built EXCEPT !.popen = Popen(built)], outputs, text)

\* ------------------------------------------------------ result propagation
\* `for item in out` over the target dict yields its keys, in the dict's
\* order, which this build fixes and the source does not: `order` is it.
KeyOrders == {<<"type", "value">>, <<"value", "type">>}

KeysOf(d, order) == SelectSeq(order, LAMBDA key : key \in DOMAIN d)

\* mod_spec for more than one output label
PushPerLabel(olabels, outlist, order) ==
  Concat([n \in 1..Len(olabels) |->
            LET keys == KeysOf(outlist[n], order)
            IN [m \in 1..Len(keys) |-> Push(olabels[n], PyStr(keys[m]))]])

\* mod_spec for one output label
PushSingleLabel(olabels, outlist) ==
  [n \in 1..Len(outlist) |-> Push(olabels[1], Dict(outlist[n]))]

\* Variant: the records unwrapped to their values.
OutputDictValues(olabels, outlist) ==
  EnumerateDict(olabels, [n \in 1..Len(outlist) |-> PyStr(outlist[n]["value"])])

\* output_dict[ol] = out for ol, out in zip(olabels, outlist)
OutputDict(olabels, outlist) ==
  EnumerateDict(olabels, [n \in 1..Len(outlist) |-> Dict(outlist[n])])

\* The part of run_task after command_line_tool has returned outlist.
Propagate(self, outlist, order) ==
  LET olabels == self.outputs.v IN
  IF Len(outlist) > 0
    THEN IF self.chunk_number # None
           THEN IF Len(olabels) > 1
                  THEN FWActionMod(PushPerLabel(olabels, outlist, order))
                  ELSE FWActionMod(PushSingleLabel(olabels, outlist))
           ELSE FWActionUpdate(OutputDict(olabels, outlist))
    ELSE FWAction

\* CommandLineTask.run_task: the state after the call, with .ret what it
\* returned or raised.
RunTask(self, st0, text, order) ==
  LET st == [st0 EXCEPT !.stdin = None, !.stdout = None, !.stderr = None,
                        !.stdininp = None, !.exc = "", !.retlist = <<>>,
                        !.copies = <<>>, !.popen = NoPopen, !.ret = Pending]
      inputs == Resolve(st.bind, st.ctx, self.inputs)
  IN
  IF inputs.kind = "raise" THEN [st EXCEPT !.ret = inputs]
  ELSE
  LET outputs == Resolve(st.bind, st.ctx, self.outputs) IN
  IF outputs.kind = "raise" THEN [st EXCEPT !.ret = outputs]
  ELSE
  LET done == command_line_tool(st, inputs.v, outputs.v, text) IN
  IF done.exc # "" THEN [done EXCEPT !.ret = Raise(done.exc)]
  ELSE LET outlist == [n \in 1..Len(done.retlist) |-> Deref(done, done.retlist[n])]
       IN [done EXCEPT !.ret = Propagate(self, outlist, order)]

\* ------------------------------------------------- the command specification
\* command_spec: {'command': [...], label: {binding, source, target}, ...}
Bindings0 ==
  ("greeting" :> [source |-> Dict([type |-> "string", value |-> "hi"])])
  @@ ("infile" :> [binding |-> Dict([prefix |-> "-i", separator |-> "="]),
                   source |-> PyStr("src_rec")])
  @@ ("piped" :> [source |-> Dict([type |-> "string", value |-> "data"]),
                  target |-> Dict([type |-> "stdin", value |-> ""])])
  @@ ("flagpipe" :> [binding |-> Dict([prefix |-> "-"]),
                     source |-> Dict([type |-> "path", value |-> "in.txt"]),
                     target |-> Dict([type |-> "stdin", value |-> ""])])
  @@ ("ident" :> [source |-> Dict([type |-> "identifier", value |-> "id1"])])
  @@ ("text" :> [source |-> Dict([type |-> "stdout", value |-> ""]),
                 target |-> Dict([type |-> "string", value |-> ""])])
  @@ ("text2" :> [source |-> Dict([type |-> "stdout", value |-> ""]),
                  target |-> Dict([type |-> "string", value |-> ""])])
  @@ ("outfile" :> [binding |-> Dict([prefix |-> "-o"]),
                    source |-> Dict([type |-> "path", value |-> "tmp.out"]),
                    target |-> Dict([type |-> "path", value |-> "res.out"])])
  @@ ("log" :> [source |-> Dict([type |-> "stderr", value |-> ""]),
                target |-> PyStr("tgt_rec")])

CommandSpec0 == [command |-> <<"echo">>, bind |-> Bindings0]

\* The context: the records the string references of the specification name.
Context0 ==
  ("src_rec" :> Dict([type |-> "path", value |-> "in.txt"]))
  @@ ("tgt_rec" :> Dict([type |-> "path", value |-> "outdir"]))

InputLabels == {"greeting", "infile", "piped", "flagpipe", "ident"}
OutputLabels == {"text", "text2", "outfile", "log"}

\* An optional list of labels: not given, or a list of up to MaxLabels labels.
LabelParams(labels) == {None} \cup {PyList(s) : s \in SeqsOf(labels, 0, MaxLabels)}

CmdIdle ==
  /\ cl_task = [inputs |-> None, outputs |-> None, chunk_number |-> None]
  /\ cmd_spec = CommandSpec0
  /\ cl_fw_spec = Context0
  /\ uuid_count = 0
  /\ popen = NoPopen
  /\ prev_popen = NoPopen
  /\ proc_out = <<>>
  /\ copies = <<>>
  /\ cl_ret = Pending
  /\ runs = 0

\* What a call of run_task starts from: the command specification, the
\* context and the names uuid4 has used up; the locals are not yet set.
CallState(cs, ctx, uuid) ==
  [command |-> cs.command, bind |-> cs.bind, ctx |-> ctx, uuid |-> uuid,
   stdin |-> None, stdout |-> None, stderr |-> None, stdininp |-> None,
   exc |-> "", retlist |-> <<>>, copies |-> <<>>, popen |-> NoPopen, ret |-> Pending]

\* One call of CommandLineTask.run_task on the task; the command
\* specification and the context are whatever the previous call left.
CommandLineTask_run_task ==
  /\ runs < MaxRuns
  /\ \E text \in StdoutTexts, order \in KeyOrders :
       \E st \in {RunTask(cl_task, CallState(cmd_spec, cl_fw_spec, uuid_count), text, order)} :
          /\ cmd_spec' = [command |-> st.command, bind |-> st.bind]
          /\ cl_fw_spec' = st.ctx
          /\ uuid_count' = st.uuid
          /\ popen' = st.popen
          /\ prev_popen' = popen
          /\ proc_out' = IF st.popen # NoPopen /\ st.stdout = PIPE THEN text ELSE <<>>
          /\ copies' = st.copies
          /\ cl_ret' = st.ret
  /\ runs' = runs + 1
  /\ UNCHANGED <<cl_task, fanVars>>

\* ------------------------------------------------------------ specifications
TaskIdle ==
  /\ task = [function |-> "mod.f", split |-> PyStr(SplitKey), inputs |-> PyStr(SplitKey),
             outputs |-> None, nchunks |-> None]
  /\ fw_spec = [key \in {SplitKey, OtherKey} |-> PyInt(9)]
  /\ FanIdle

\* CommandLineTask, run up to MaxRuns times on the same task.
InitCmd ==
  /\ cl_task \in [inputs : LabelParams(InputLabels), outputs : LabelParams(OutputLabels),
                  chunk_number : {None, PyInt(0)}]
  /\ cmd_spec = CommandSpec0
  /\ cl_fw_spec = Context0
  /\ uuid_count = 0
  /\ popen = NoPopen
  /\ prev_popen = NoPopen
  /\ proc_out = <<>>
  /\ copies = <<>>
  /\ cl_ret = Pending
  /\ runs = 0
  /\ TaskIdle

SpecCmd == InitCmd /\ [][CommandLineTask_run_task]_vars

\* ForeachTask alone, over every list up to MaxLen and every chunk count.
InitForeach ==
  /\ task \in [function : {"mod.f"}, split : SplitParams, inputs : InputParams,
               outputs : {PyStr("a")}, nchunks : ChunkParams]
  /\ \E xs \in {PyList(s) : s \in SeqsOf(Elems, 0, MaxLen)} \cup {PyInt(5)} :
       fw_spec = [key \in {SplitKey, OtherKey} |->
                    IF key = SplitKey THEN xs ELSE PyInt(9)]
  /\ FanIdle
  /\ CmdIdle

SpecForeach == InitForeach /\ [][ForeachTask_run_task]_vars


\* Fan-out end to end, over short lists.
InitFan ==
  /\ task \in [function : {"mod.f"}, split : SplitParams, inputs : InputParams,
               outputs : OutputParams,
               nchunks : {None} \cup {PyInt(c) : c \in 0..(MaxBranches + 1)}]
  /\ \E xs \in {PyList(s) : s \in SeqsOf({PyInt(1)}, 0, MaxBranches)} \cup {PyInt(5)} :
       fw_spec = [key \in {SplitKey, OtherKey} |->
                    IF key = SplitKey THEN xs ELSE PyInt(9)]
  /\ FanIdle
  /\ CmdIdle

NextFan == ForeachTask_run_task \/ SingleTask_run_task \/ EngineApply

SpecFan == InitFan /\ [][NextFan]_vars


\* ================================================================== claims
Ceil(a, b) == (a + b - 1) \div b

\* The run returned spawned units for a valid, non-empty split list.
Spawned ==
  /\ foreach_ret.kind = "FWAction"
  /\ ~foreach_ret.defuse_workflow
  /\ fw_spec[SplitKey].k = "list"
  /\ Len(fw_spec[SplitKey].v) >= 1

\* The chunks handed to the spawned units, in chunk-index order.
HandedChunks ==
  [n \in 1..Len(foreach_ret.detours) |-> foreach_ret.detours[n].spec[SplitKey].v]

ChunkSizes == [n \in 1..Len(HandedChunks) |-> Len(HandedChunks[n])]

\* C1: for a non-empty split list and a chunk count >= 1 or unspecified, the
\* chunks handed to the spawned units, concatenated in chunk-index order,
\* are exactly the original list.
C1_ConcatReproducesList ==
  (Spawned /\ (task.nchunks = None \/ task.nchunks.v >= 1))
    => Concat(HandedChunks) = fw_spec[SplitKey].v

C1_Witness ==
  /\ Spawned
  /\ task.nchunks = PyInt(3)
  /\ fw_spec[SplitKey].v = <<PyInt(1), PyInt(2), PyInt(2), PyInt(1), PyInt(1)>>
  /\ Len(foreach_ret.detours) = 3

\* 1 <= C <= L with an explicit chunk count C.
CountWithinLength ==
  /\ Spawned
  /\ task.nchunks # None
  /\ 1 <= task.nchunks.v
  /\ task.nchunks.v <= Len(fw_spec[SplitKey].v)

\* C2 as stated: for 1 <= C <= L the chunk sizes differ by at most 1, and
\* every chunk except possibly the last has size ceil(L/C).
C2_SizesDifferByAtMostOne ==
  CountWithinLength =>
    LET L == Len(fw_spec[SplitKey].v)
        C == task.nchunks.v
        n == Len(ChunkSizes)
    IN /\ \A i, j \in 1..n : ChunkSizes[i] - ChunkSizes[j] <= 1
       /\ \A i \in 1..(n - 1) : ChunkSizes[i] = Ceil(L, C)

\* C2 amended: for 1 <= C <= L every chunk except the last has size
\* ceil(L/C) and the last has between 1 and ceil(L/C) elements, so the sizes
\* differ by at most ceil(L/C) - 1.
C2_AllButLastCeil ==
  CountWithinLength =>
    LET L == Len(fw_spec[SplitKey].v)
        C == task.nchunks.v
        n == Len(ChunkSizes)
    IN /\ n >= 1
       /\ \A i \in 1..(n - 1) : ChunkSizes[i] = Ceil(L, C)
       /\ 1 <= ChunkSizes[n] /\ ChunkSizes[n] <= Ceil(L, C)
       /\ \A i, j \in 1..n : ChunkSizes[i] - ChunkSizes[j] <= Ceil(L, C) - 1

C2_Witness ==
  /\ CountWithinLength
  /\ Len(fw_spec[SplitKey].v) = 7
  /\ task.nchunks = PyInt(3)
  /\ ChunkSizes = <<3, 3, 1>>

\* The split key is a string naming a list in the context and is named
\* among the inputs.
ValidSplit ==
  /\ task.split.k = "str"
  /\ task.split.v \in DOMAIN fw_spec
  /\ fw_spec[task.split.v].k = "list"
  /\ IF task.inputs.k = "list"
       THEN \E n \in 1..Len(task.inputs.v) : task.inputs.v[n] = task.split.v
       ELSE task.inputs = task.split

\* C9: a valid split key naming an empty list makes run_task return a defuse
\* directive with no spawned units and raise nothing, whatever the chunk count.
C9_EmptyListDefuses ==
  (ValidSplit /\ fw_spec[task.split.v].v = <<>> /\ foreach_ret # Pending)
    => /\ foreach_ret.kind = "FWAction"
       /\ foreach_ret.defuse_workflow
       /\ foreach_ret.detours = <<>>

C9_Witness ==
  /\ ValidSplit
  /\ fw_spec[task.split.v].v = <<>>
  /\ task.nchunks = PyInt(3)
  /\ foreach_ret # Pending

\* What a unit's transform output contributes to the list under the label:
\* the items of a list, any other value itself.
Contribution(out) == IF out.k = "list" THEN out.v ELSE <<out>>

AllApplied ==
  /\ foreach_ret.kind = "FWAction"
  /\ Len(foreach_ret.detours) >= 2
  /\ applied = Len(foreach_ret.detours)

\* C3: once the engine has applied every sibling's directive in submission
\* order, the entry under the shared output label is the list of all the
\* siblings' produced values in that order, whatever the transform returned.
C3_SiblingsAccumulate ==
  (AllApplied /\ task.outputs = PyStr("a"))
    => child_spec["a"] =
         PyList(Concat([n \in 1..Len(branch_out) |-> Contribution(branch_out[n])]))

\* ------------------------------------------------- CommandLineTask claims
\* The target record a label declares / has now, through its reference.
DeclaredTarget(l) ==
  LET item == Bindings0[l]["target"]
  IN IF item.k = "str" THEN Context0[item.v].v ELSE item.v

CurrentTarget(l) ==
  LET item == cmd_spec.bind[l]["target"]
  IN IF item.k = "str" THEN cl_fw_spec[item.v].v ELSE item.v

LabelSet(labels) == {labels[n] : n \in 1..Len(labels)}

\* Every input label names a supported binding.
ValidInputs ==
  /\ cl_task.inputs # None
  /\ LabelSet(cl_task.inputs.v) \subseteq (InputLabels \ {"ident"})

\* C4: with zero declared outputs (an empty list, or the parameter not given)
\* and an otherwise valid specification, run_task returns the empty result
\* directive and raises nothing.
C4_NoOutputsNoError ==
  (runs >= 1 /\ ValidInputs /\ cl_task.outputs \in {None, PyList(<<>>)})
    => cl_ret = FWAction

\* The first run returned in single mode with at least one output.
SingleModeUpdate ==
  /\ runs = 1
  /\ cl_task.chunk_number = None
  /\ cl_ret.kind = "FWAction"
  /\ cl_task.outputs # None
  /\ Len(cl_task.outputs.v) >= 1

\* C5 as stated: in single mode the update directive maps each output label
\* to the finalized value of its output (target.value, not the record).
C5_UpdateMapsLabelToValue ==
  SingleModeUpdate =>
    /\ DOMAIN cl_ret.update_spec = LabelSet(cl_task.outputs.v)
    /\ \A l \in LabelSet(cl_task.outputs.v) :
         cl_ret.update_spec[l] = PyStr(CurrentTarget(l)["value"])

\* The values a label's target may end with: the stripped captured text for
\* a string target, a fresh name inside a directory target, else as declared.
FinalValues(l) ==
  LET declared == DeclaredTarget(l) IN
  IF declared["type"] = "string" THEN {DecodeStrip(proc_out)}
  ELSE IF declared["value"] \in Dirs
    THEN {JoinUuid(declared["value"], n) : n \in 0..(uuid_count - 1)}
  ELSE {declared["value"]}

\* C5 amended: in single mode the update directive maps each output label to
\* the finalized target record of its output, the whole {type, value} record
\* with value finalized, not to target.value alone.
C5_UpdateMapsLabelToRecord ==
  SingleModeUpdate =>
    /\ DOMAIN cl_ret.update_spec = LabelSet(cl_task.outputs.v)
    /\ cl_ret.mod_spec = <<>>
    /\ \A l \in LabelSet(cl_task.outputs.v) :
         cl_ret.update_spec[l] \in
           {Dict([type |-> DeclaredTarget(l)["type"], value |-> v]) : v \in FinalValues(l)}

C5_Witness ==
  /\ SingleModeUpdate
  /\ cl_task.outputs = PyList(<<"text", "log">>)
  /\ cl_ret.update_spec["text"] = Dict([type |-> "string", value |-> "hi"])
  /\ cl_ret.update_spec["log"] = Dict([type |-> "path", value |-> "outdir/uuid0"])

\* The first run returned in chunked mode with at least one output.
ChunkedMode ==
  /\ runs = 1
  /\ cl_task.chunk_number # None
  /\ cl_ret.kind = "FWAction"
  /\ cl_task.outputs # None
  /\ Len(cl_task.outputs.v) >= 1

\* A label's own output value, read as the record or as its value.
OwnValues(l) == {Dict(CurrentTarget(l)), PyStr(CurrentTarget(l)["value"])}

\* C6: in chunked mode with at least one output run_task emits only append
\* directives; with more than one label each value appended under a label is
\* that label's own output value; with one label every produced value is
\* appended under it.
C6_ChunkedAppendsOwnValues ==
  ChunkedMode =>
    LET olabels == cl_task.outputs.v
        mods == cl_ret.mod_spec
    IN /\ DOMAIN cl_ret.update_spec = {}
       /\ Len(mods) >= 1
       /\ \A m \in 1..Len(mods) :
            /\ mods[m].op = "_push"
            /\ mods[m].key \in LabelSet(olabels)
            /\ mods[m].val \in OwnValues(mods[m].key)
       /\ Len(olabels) = 1 => Len(mods) = 1

\* The input labels whose target.type is stdin, left out.
WithoutStdin(labels) ==
  SelectSeq(labels, LAMBDA l : ~("target" \in DOMAIN Bindings0[l]
                                  /\ DeclaredTarget(l)["type"] = "stdin"))

\* The argument vector the first run launches for a task.
FirstArgs(self) ==
  RunTask(self, CallState(CommandSpec0, Context0, 0), <<>>, <<"type", "value">>).popen.args

\* C7: an input whose target.type is stdin contributes no token: the
\* argument vector launched is the one launched with that input left out.
C7_StdinAddsNoToken ==
  (runs = 1 /\ popen # NoPopen)
    => popen.args = FirstArgs([cl_task EXCEPT !.inputs = PyList(WithoutStdin(@.v))])

\* C8: the command specification and the context records it refers to are
\* unchanged by any run, and two runs in a row launch the same argument
\* vector.
C8_SpecImmutable ==
  /\ cmd_spec = CommandSpec0
  /\ cl_fw_spec = Context0
  /\ (runs >= 2 /\ popen # NoPopen /\ prev_popen # NoPopen)
       => popen.args = prev_popen.args

\* Two different declared outputs capture standard output as a string.
TwoStringOutputs ==
  /\ cl_task.outputs # None
  /\ \E n, m \in 1..Len(cl_task.outputs.v) :
       /\ cl_task.outputs.v[n] # cl_task.outputs.v[m]
       /\ DeclaredTarget(cl_task.outputs.v[n])["type"] = "string"
       /\ DeclaredTarget(cl_task.outputs.v[m])["type"] = "string"

\* C10: when two or more declared outputs have target.type string the call
\* fails before the process is launched.
C10_SecondStringOutputFailsFast ==
  (runs = 1 /\ TwoStringOutputs) => (cl_ret.kind = "raise" /\ popen = NoPopen)

====
